---- MODULE Spec2Model ----
(***************************************************************************)
(* A model of the UNO game component of src/src/App.tsx: the card and deck *)
(* model, the legality rules, the draw/recycle routine, the seat ring, the *)
(* human handlers, the opponent (AI) timer effect and resetGame.           *)
(*                                                                         *)
(* A card is its position in the deck as generateDeck pushes it (an object *)
(* identity); its type, colour and value are read from BaseDeck.  The      *)
(* React state object is the variable gameState, with the fields of the    *)
(* source's GameState except the display text `message`.  The pending      *)
(* setTimeout of the AI effect is the variable timer, which holds the      *)
(* gameState its callback closed over.                                     *)
(***************************************************************************)
EXTENDS Integers, Sequences, FiniteSets, TLC

VARIABLES gameState, timer, ev, turns

vars == <<gameState, timer, ev, turns>>

(***************************************************************************)
(* Bounds of the model.  The source deals 7 cards from a deck of 4 colours,*)
(* numbers 0..9 and 4 wild cards of each kind.                             *)
(***************************************************************************)
NumColors == 2
MaxNum == 1
WildCopies == 1
HandSize == 2
MaxSel == 2
MaxTurns == 3
MaxCount == 3
MaxPile == 3

\* winner: null
NoWinner == -1

\* the size of the source's deck: numbers 0..9, four wild cards of each kind
FullMaxNum == 9
FullWildCopies == 4

AllColors == <<"red", "blue", "green", "yellow">>
COLORS == SubSeq(AllColors, 1, NumColors)
ACTION_CARDS == <<"Skip", "Reverse", "Draw2">>
NumStr == <<"0", "1", "2", "3", "4", "5", "6", "7", "8", "9">>
Seats == 0..3

Range(s) == {s[i] : i \in 1..Len(s)}
Last(s) == s[Len(s)]
Front(s) == SubSeq(s, 1, Len(s) - 1)

RECURSIVE Flatten(_)
Flatten(ss) == IF ss = <<>> THEN <<>> ELSE Head(ss) \o Flatten(Tail(ss))

(***************************************************************************)
(* generateDeck, before its final sort: the cards in push order, for the   *)
(* colours, the highest number and the number of wild copies given.        *)
(***************************************************************************)
\* faulty variant: the 0 is pushed twice, like the other numbers
deckNumbers_ZeroTwice(color, maxNum) ==
  Flatten([n \in 1..(maxNum + 1) |->
     LET c == [type |-> "number", color |-> color, value |-> NumStr[n]]
     IN  <<c, c>>])

deckNumbers(color, maxNum) ==
  Flatten([n \in 1..(maxNum + 1) |->
     LET c == [type |-> "number", color |-> color, value |-> NumStr[n]]
     IN  IF n - 1 # 0 THEN <<c, c>> ELSE <<c>>])

numberCards(color) == deckNumbers(color, MaxNum)

actionCards(color) ==
  Flatten([a \in 1..Len(ACTION_CARDS) |->
     LET c == [type |-> "action", color |-> color, value |-> ACTION_CARDS[a]]
     IN  <<c, c>>])

deckWilds(copies) ==
  Flatten([i \in 1..copies |->
     << [type |-> "wild", color |-> "none", value |-> "Wild"],
        [type |-> "wild", color |-> "none", value |-> "Wild+4"] >>])

wildCards == deckWilds(WildCopies)

pushedDeck(colors, maxNum, copies) ==
  Flatten([k \in 1..Len(colors) |-> deckNumbers(colors[k], maxNum)])
  \o Flatten([k \in 1..Len(colors) |-> actionCards(colors[k])])
  \o deckWilds(copies)

BaseDeck == pushedDeck(COLORS, MaxNum, WildCopies)

NumCards == Len(BaseDeck)
Cards == 1..NumCards

Type(c) == BaseDeck[c].type
Color(c) == BaseDeck[c].color
Value(c) == BaseDeck[c].value

\* the k-th card of a colour and value, in push order
Card(color, value, k) ==
  LET ids == SelectSeq([i \in 1..NumCards |-> i],
                       LAMBDA i : Color(i) = color /\ Value(i) = value)
  IN  ids[k]

(***************************************************************************)
(* Legality rules.  A missing card (undefined) is the empty sequence here: *)
(* callers pass <<c>> or <<>>.                                             *)
(***************************************************************************)
\* faulty variant: the colour and rank checks are missing
canCardBePlayed_AnyCard(card, topCard, activeColor) ==
  IF card = <<>> \/ topCard = <<>> THEN FALSE ELSE TRUE

\* faulty variant: the colour of the top card stands for the active colour
canCardBePlayed_ColorOfTop(card, topCard, activeColor) ==
  IF card = <<>> \/ topCard = <<>> THEN FALSE
  ELSE IF Type(card[1]) = "wild" THEN TRUE
  ELSE IF Color(card[1]) = Color(topCard[1]) THEN TRUE
  ELSE IF Value(card[1]) = Value(topCard[1]) THEN TRUE
  ELSE FALSE

canCardBePlayed(card, topCard, activeColor) ==
  IF card = <<>> \/ topCard = <<>> THEN FALSE
  ELSE IF Type(card[1]) = "wild" THEN TRUE
  ELSE IF Color(card[1]) = activeColor THEN TRUE
  ELSE IF Value(card[1]) = Value(topCard[1]) THEN TRUE
  ELSE FALSE

\* faulty variant: every card of the stack is tested on its own, the ranks
\* are not compared
canPlayMultipleCards_EachPlayable(cards, topCard, activeColor) ==
  IF Len(cards) = 0 \/ topCard = <<>> THEN FALSE
  ELSE \A i \in 1..Len(cards) : canCardBePlayed(<<cards[i]>>, topCard, activeColor)

canPlayMultipleCards(cards, topCard, activeColor) ==
  IF Len(cards) = 0 \/ topCard = <<>> THEN FALSE
  ELSE IF Len(cards) = 1 THEN canCardBePlayed(<<cards[1]>>, topCard, activeColor)
  ELSE LET firstValue == Value(cards[1])
           allSameValue == \A i \in 1..Len(cards) : Value(cards[i]) = firstValue
       IN  IF ~allSameValue THEN FALSE
           ELSE IF ~canCardBePlayed(<<cards[1]>>, topCard, activeColor) THEN FALSE
           ELSE TRUE

\* discard[discard.length - 1], undefined for an empty pile
topOf(discard) == IF Len(discard) = 0 THEN <<>> ELSE <<Last(discard)>>

(***************************************************************************)
(* The outcomes of sort(() => Math.random() - 0.5) explored: the rotations *)
(* of s and of s reversed (every order of s when s has at most 3 cards).   *)
(***************************************************************************)
Reverse(s) == [i \in 1..Len(s) |-> s[Len(s) + 1 - i]]

Rotate(s, k) == [i \in 1..Len(s) |-> s[((i - 1 + k) % Len(s)) + 1]]

Shuffles(s) ==
  {Rotate(s, k) : k \in 0..(Len(s) - 1)} \cup {Rotate(Reverse(s), k) : k \in 0..(Len(s) - 1)}

(***************************************************************************)
(* drawCardsFromDeck: the set of results {drawn, newDeck} of its loop, run *)
(* for n more rounds.  currentDiscard is only read.                        *)
(***************************************************************************)
\* faulty variant: the whole discard pile is recycled, its top card included
RECURSIVE drawLoop_WholeDiscard(_, _, _, _)
drawLoop_WholeDiscard(n, newDeck, drawn, currentDiscard) ==
  IF n = 0 THEN {[drawn |-> drawn, newDeck |-> newDeck]}
  ELSE IF Len(newDeck) = 0
       THEN IF Len(currentDiscard) > 1
            THEN UNION {drawLoop_WholeDiscard(n - 1, Front(d), Append(drawn, Last(d)),
                                              currentDiscard) :
                          d \in Shuffles(currentDiscard)}
            ELSE {[drawn |-> drawn, newDeck |-> newDeck]}
       ELSE drawLoop_WholeDiscard(n - 1, Front(newDeck), Append(drawn, Last(newDeck)),
                                  currentDiscard)

RECURSIVE drawLoop(_, _, _, _)
drawLoop(n, newDeck, drawn, currentDiscard) ==
  IF n = 0 THEN {[drawn |-> drawn, newDeck |-> newDeck]}
  ELSE IF Len(newDeck) = 0
       THEN IF Len(currentDiscard) > 1
            THEN UNION {drawLoop(n - 1, Front(d), Append(drawn, Last(d)), currentDiscard) :
                          d \in Shuffles(Front(currentDiscard))}
            ELSE {[drawn |-> drawn, newDeck |-> newDeck]}
       ELSE drawLoop(n - 1, Front(newDeck), Append(drawn, Last(newDeck)), currentDiscard)

drawCardsFromDeck(count, currentDeck, currentDiscard) ==
  drawLoop(count, currentDeck, <<>>, currentDiscard)

\* a call of drawCardsFromDeck, with the caller's arrays as the call leaves
\* them: the loop works on [...currentDeck] and on currentDiscard.slice(0, -1)
drawCall(count, currentDeck, currentDiscard) ==
  {[drawn |-> r.drawn, newDeck |-> r.newDeck,
    currentDeck |-> currentDeck, currentDiscard |-> currentDiscard] :
     r \in drawCardsFromDeck(count, currentDeck, currentDiscard)}

(***************************************************************************)
(* The seat ring.                                                          *)
(***************************************************************************)
clockwiseOrder == <<0, 3, 1, 2>>

indexOf(s, x) == CHOOSE i \in 1..Len(s) : s[i] = x

\* faulty variant: the seats are visited in the order of their numbers
getNextPlayerIdx_Numeric(currentIdx, dir) == (currentIdx + dir + 4) % 4

getNextPlayerIdx(currentIdx, dir) ==
  LET currentPosition == indexOf(clockwiseOrder, currentIdx) - 1
      nextPosition == IF dir = 1 THEN (currentPosition + 1) % 4
                      ELSE (currentPosition - 1 + 4) % 4
  IN  clockwiseOrder[nextPosition + 1]

\* faulty variant: the direction is left as it is
flip_None(dir) == dir

flip(dir) == IF dir = 1 THEN -1 ELSE 1

(***************************************************************************)
(* initialState and resetGame build the same object from a shuffled deck.  *)
(***************************************************************************)
dealHands(newDeck) ==
  [i \in Seats |->
     SubSeq(newDeck, Len(newDeck) - (i + 1) * HandSize + 1, Len(newDeck) - i * HandSize)]

\* faulty variant: the cards dealt stay in the draw pile
initialState_DealtCardsStay(shuffled) ==
  LET starter == Last(shuffled)
      newDeck == Front(shuffled)
  IN  [deck |-> newDeck,
       discard |-> <<starter>>,
       hands |-> dealHands(newDeck),
       currentColor |-> IF Color(starter) = "none" THEN "red" ELSE Color(starter),
       currentPlayerIdx |-> 0,
       direction |-> 1,
       gameOver |-> FALSE,
       winner |-> NoWinner,
       selectedColor |-> "none",
       selectedCards |-> <<>>,
       skipNextPlayer |-> FALSE]

initialState(shuffled) ==
  LET starter == Last(shuffled)
      newDeck == Front(shuffled)
  IN  [deck |-> SubSeq(newDeck, 1, Len(newDeck) - 4 * HandSize),
       discard |-> <<starter>>,
       hands |-> dealHands(newDeck),
       currentColor |-> IF Color(starter) = "none" THEN "red" ELSE Color(starter),
       currentPlayerIdx |-> 0,
       direction |-> 1,
       gameOver |-> FALSE,
       winner |-> NoWinner,
       selectedColor |-> "none",
       selectedCards |-> <<>>,
       skipNextPlayer |-> FALSE]

(***************************************************************************)
(* toggleCardSelection and the two inline selection handlers of the JSX.   *)
(* Hand indices are 1-based here (0-based in the source).                  *)
(***************************************************************************)
toggleCardSelection(prev, cardIndex) ==
  IF ~(cardIndex \in 1..Len(prev.hands[0])) THEN prev
  ELSE IF cardIndex \in Range(prev.selectedCards)
       THEN [prev EXCEPT !.selectedCards = SelectSeq(@, LAMBDA i : i # cardIndex)]
       ELSE [prev EXCEPT !.selectedCards = Append(@, cardIndex)]

\* the colour selector is rendered only while the first selected card is wild
colorSelectorShown(g) ==
  /\ Len(g.selectedCards) > 0
  /\ g.selectedCards[1] \in 1..Len(g.hands[0])
  /\ Type(g.hands[0][g.selectedCards[1]]) = "wild"

selectColor(prev, color) == [prev EXCEPT !.selectedColor = color]

\* the Annuler button, rendered with the play button
cancelShown(g) == Len(g.selectedCards) > 0 /\ g.currentPlayerIdx = 0

cancelSelection(prev) == [prev EXCEPT !.selectedCards = <<>>, !.selectedColor = "none"]

(***************************************************************************)
(* handlePlayerPlay.                                                       *)
(***************************************************************************)
\* faulty variant: the check of the current seat is missing
playBlocked_OnlyGameOver(g) == g.gameOver

playBlocked(g) == g.currentPlayerIdx # 0 \/ g.gameOver

\* selectedCards.map((i) => hands[0][i]).filter(Boolean)
selectedCardObjects(g) ==
  LET inHand == SelectSeq(g.selectedCards, LAMBDA i : i \in 1..Len(g.hands[0]))
  IN  [k \in 1..Len(inHand) |-> g.hands[0][inHand[k]]]

\* faulty variant: only the first selected card leaves the hand
removeSelected_FirstOnly(hand, selectedCards) ==
  LET keep == SelectSeq([i \in 1..Len(hand) |-> i], LAMBDA i : i # selectedCards[1])
  IN  [k \in 1..Len(keep) |-> hand[keep[k]]]

\* hands[0].filter((_, i) => !selectedCards.includes(i))
removeSelected(hand, selectedCards) ==
  LET keep == SelectSeq([i \in 1..Len(hand) |-> i], LAMBDA i : i \notin Range(selectedCards))
  IN  [k \in 1..Len(keep) |-> hand[keep[k]]]

\* faulty variant: the colour chosen for a wild card is not used
playerNewColor_OfCard(lastCard, selectedColor) == Color(lastCard)

playerNewColor(lastCard, selectedColor) ==
  IF Type(lastCard) = "wild" THEN selectedColor ELSE Color(lastCard)

\* faulty variant: the number of stacked cards is ignored
cardsToDrawCount_Single(cards, value, per) == per

\* cards.filter((c) => c.value === value).length * per
cardsToDrawCount(cards, value, per) ==
  Len(SelectSeq(cards, LAMBDA c : Value(c) = value)) * per

\* lines 285-302: the results {nextPlayerIdx, skipNext, newDirection, newHands}
playerEffect(g, cards, newHands, newDiscard) ==
  LET lastCard == Last(cards)
      nextPlayerIdx == getNextPlayerIdx(0, g.direction)
      base == [nextPlayerIdx |-> nextPlayerIdx, skipNext |-> FALSE,
               newDirection |-> g.direction, newHands |-> newHands]
      give(count) ==
        {[base EXCEPT !.newHands[nextPlayerIdx] = @ \o r.drawn] :
           r \in drawCardsFromDeck(count, g.deck, newDiscard)}
  IN  IF Value(lastCard) = "Skip" THEN {[base EXCEPT !.skipNext = TRUE]}
      ELSE IF Value(lastCard) = "Reverse"
           THEN {[base EXCEPT !.newDirection = flip(g.direction),
                              !.nextPlayerIdx = getNextPlayerIdx(0, flip(g.direction))]}
      ELSE IF Value(lastCard) = "Draw2" THEN give(cardsToDrawCount(cards, "Draw2", 2))
      ELSE IF Value(lastCard) = "Wild+4" THEN give(cardsToDrawCount(cards, "Wild+4", 4))
      ELSE {base}

\* the states handlePlayerPlay can commit from g, with the cards it played
handlePlayerPlay(g) ==
  LET topCard == topOf(g.discard)
      sel == selectedCardObjects(g)
      none(g2) == {[g |-> g2, cards |-> sel, ok |-> FALSE]}
      cleared == [g EXCEPT !.selectedCards = <<>>]
  IN  IF playBlocked(g) THEN {[g |-> g, cards |-> <<>>, ok |-> FALSE]}
      ELSE IF Len(g.selectedCards) = 0 THEN none(g)
      ELSE IF Len(sel) = 0 THEN none(cleared)
      ELSE IF Len(sel) > 1 /\ ~(\A i \in 1..Len(sel) : Value(sel[i]) = Value(sel[1]))
           THEN none(cleared)
      ELSE IF ~canCardBePlayed(<<sel[1]>>, topCard, g.currentColor) THEN none(cleared)
      ELSE IF Type(sel[1]) = "wild" /\ g.selectedColor = "none" THEN none(g)
      ELSE
        LET newHands == [g.hands EXCEPT ![0] = removeSelected(g.hands[0], g.selectedCards)]
            newDiscard == g.discard \o sel
            newColor == playerNewColor(Last(sel), g.selectedColor)
        IN  IF Len(newHands[0]) = 0
            THEN {[g |-> [g EXCEPT !.gameOver = TRUE, !.winner = 0, !.hands = newHands,
                                   !.discard = newDiscard, !.currentColor = newColor],
                   cards |-> sel, ok |-> TRUE]}
            ELSE {[g |-> [g EXCEPT !.hands = e.newHands, !.discard = newDiscard,
                                   !.currentColor = newColor,
                                   !.currentPlayerIdx = e.nextPlayerIdx,
                                   !.direction = e.newDirection,
                                   !.skipNextPlayer = e.skipNext,
                                   !.selectedColor = "none", !.selectedCards = <<>>],
                   cards |-> sel, ok |-> TRUE] :
                    e \in playerEffect(g, sel, newHands, newDiscard)}

(***************************************************************************)
(* handlePlayerDraw.                                                       *)
(***************************************************************************)
\* faulty variant: the check of the terminal flag is missing
drawBlocked_OnlySeat(g) == g.currentPlayerIdx # 0

drawBlocked(g) == g.currentPlayerIdx # 0 \/ g.gameOver

\* faulty variant: the draw does not pass the turn
handlePlayerDraw_KeepsSeat(g) ==
  IF drawBlocked(g) THEN {[g |-> g, cards |-> <<>>, ok |-> FALSE]}
  ELSE {[g |-> [g EXCEPT !.hands[0] = @ \o r.drawn, !.deck = r.newDeck,
                         !.selectedCards = <<>>],
         cards |-> <<>>, ok |-> TRUE] :
          r \in drawCardsFromDeck(1, g.deck, g.discard)}

handlePlayerDraw(g) ==
  IF drawBlocked(g) THEN {[g |-> g, cards |-> <<>>, ok |-> FALSE]}
  ELSE {[g |-> [g EXCEPT !.hands[0] = @ \o r.drawn, !.deck = r.newDeck,
                         !.currentPlayerIdx = getNextPlayerIdx(0, g.direction),
                         !.selectedCards = <<>>],
         cards |-> <<>>, ok |-> TRUE] :
          r \in drawCardsFromDeck(1, g.deck, g.discard)}

(***************************************************************************)
(* The AI turn: the callback of the timer armed by the effect of lines     *)
(* 339-435.  g is the gameState the callback closed over, prev the state   *)
(* its updaters are applied to.                                            *)
(***************************************************************************)
aiValidCards(g) ==
  SelectSeq(g.hands[g.currentPlayerIdx],
            LAMBDA c : canCardBePlayed(<<c>>, topOf(g.discard), g.currentColor))

\* faulty variant: only the first playable card is played
aiCardsToPlay_FirstOnly(validCards) == <<validCards[1]>>

aiCardsToPlay(validCards) ==
  LET firstCard == validCards[1]
      matchingCards == SelectSeq(validCards, LAMBDA c : Value(c) = Value(firstCard))
  IN  IF Len(matchingCards) > 1 THEN matchingCards ELSE <<firstCard>>

\* COLORS[Math.floor(Math.random() * 4)] for a wild card, else the card's colour
aiNewColors(lastCard) ==
  IF Type(lastCard) = "wild" THEN Range(COLORS) ELSE {Color(lastCard)}

\* lines 347-386: the results {nextPlayerIdx, skipNext, newDirection, newHands}
aiEffect(g, cards, newHands, newDeck, newDiscard) ==
  LET lastCard == Last(cards)
      nextPlayerIdx == getNextPlayerIdx(g.currentPlayerIdx, g.direction)
      base == [nextPlayerIdx |-> nextPlayerIdx, skipNext |-> FALSE,
               newDirection |-> g.direction, newHands |-> newHands]
      give(count) ==
        {[base EXCEPT !.newHands[nextPlayerIdx] = @ \o r.drawn] :
           r \in drawCardsFromDeck(count, newDeck, newDiscard)}
  IN  IF Value(lastCard) = "Skip" THEN {[base EXCEPT !.skipNext = TRUE]}
      ELSE IF Value(lastCard) = "Reverse"
           THEN {[base EXCEPT !.newDirection = flip(g.direction),
                              !.nextPlayerIdx =
                                 getNextPlayerIdx(g.currentPlayerIdx, flip(g.direction))]}
      ELSE IF Value(lastCard) = "Draw2" THEN give(cardsToDrawCount(cards, "Draw2", 2))
      ELSE IF Value(lastCard) = "Wild+4" THEN give(cardsToDrawCount(cards, "Wild+4", 4))
      ELSE {base}

\* lines 412-430: the seat the callback makes current
aiNextSeat(e) ==
  IF e.skipNext THEN getNextPlayerIdx(e.nextPlayerIdx, e.newDirection)
  ELSE e.nextPlayerIdx

\* faulty variant: the hand of the acting seat is not tested for emptiness
aiTurn_NoWinCheck(g, prev) ==
  LET cur == g.currentPlayerIdx
      currentHand == g.hands[cur]
      validCards == aiValidCards(g)
  IN  IF Len(validCards) = 0
      THEN {[g |-> [prev EXCEPT !.currentPlayerIdx = getNextPlayerIdx(cur, g.direction),
                                !.hands = [g.hands EXCEPT ![cur] = currentHand \o r.drawn],
                                !.deck = r.newDeck],
             cards |-> <<>>, ok |-> TRUE] :
              r \in drawCardsFromDeck(1, g.deck, g.discard)}
      ELSE
        LET cardsToPlay == aiCardsToPlay(validCards)
            played == [g.hands EXCEPT ![cur] =
                         SelectSeq(currentHand, LAMBDA c : c \notin Range(cardsToPlay))]
            newDiscard == g.discard \o cardsToPlay
        IN  UNION {
              {[g |-> [prev EXCEPT !.hands = e.newHands, !.discard = newDiscard,
                                   !.currentColor = newColor,
                                   !.direction = e.newDirection,
                                   !.skipNextPlayer = FALSE,
                                   !.deck = g.deck,
                                   !.currentPlayerIdx = aiNextSeat(e)],
                cards |-> cardsToPlay, ok |-> TRUE] :
                 e \in aiEffect(g, cardsToPlay, played, g.deck, newDiscard)} :
              newColor \in aiNewColors(Last(cardsToPlay))}

aiTurn(g, prev) ==
  LET cur == g.currentPlayerIdx
      currentHand == g.hands[cur]
      validCards == aiValidCards(g)
  IN  IF Len(validCards) = 0
      THEN {[g |-> [prev EXCEPT !.currentPlayerIdx = getNextPlayerIdx(cur, g.direction),
                                !.hands = [g.hands EXCEPT ![cur] = currentHand \o r.drawn],
                                !.deck = r.newDeck],
             cards |-> <<>>, ok |-> TRUE] :
              r \in drawCardsFromDeck(1, g.deck, g.discard)}
      ELSE
        LET cardsToPlay == aiCardsToPlay(validCards)
            played == [g.hands EXCEPT ![cur] =
                         SelectSeq(currentHand, LAMBDA c : c \notin Range(cardsToPlay))]
            newDiscard == g.discard \o cardsToPlay
        IN  UNION {
              {IF Len(e.newHands[cur]) = 0
               THEN [g |-> [prev EXCEPT !.gameOver = TRUE, !.winner = cur,
                                        !.hands = e.newHands, !.discard = newDiscard,
                                        !.currentColor = newColor],
                     cards |-> cardsToPlay, ok |-> TRUE]
               ELSE [g |-> [prev EXCEPT !.hands = e.newHands, !.discard = newDiscard,
                                        !.currentColor = newColor,
                                        !.direction = e.newDirection,
                                        !.skipNextPlayer = FALSE,
                                        !.deck = g.deck,
                                        !.currentPlayerIdx = aiNextSeat(e)],
                     cards |-> cardsToPlay, ok |-> TRUE] :
                 e \in aiEffect(g, cardsToPlay, played, g.deck, newDiscard)} :
              newColor \in aiNewColors(Last(cardsToPlay))}

(***************************************************************************)
(* The effect with dependencies [currentPlayerIdx, gameOver], run after a  *)
(* render that replaced gameState old by new: the pending timers after it. *)
(***************************************************************************)
depsChanged(old, new) ==
  old.currentPlayerIdx # new.currentPlayerIdx \/ old.gameOver # new.gameOver

\* faulty variant: the effect has no dependency list, it runs after every
\* render and arms a new timer
useEffect_EveryRender(old, new, pending) ==
  IF new.currentPlayerIdx = 0 \/ new.gameOver THEN <<>> ELSE <<new>>

\* faulty variant: the effect has no cleanup, a pending timer survives a change of
\* its dependencies that arms no new one
useEffect_NoCleanup(old, new, pending) ==
  IF ~depsChanged(old, new) THEN pending
  ELSE IF new.currentPlayerIdx = 0 \/ new.gameOver THEN pending
  ELSE <<new>>

useEffect(old, new, pending) ==
  IF ~depsChanged(old, new) THEN pending
  ELSE IF new.currentPlayerIdx = 0 \/ new.gameOver THEN <<>>
  ELSE <<new>>

(***************************************************************************)
(* The orders generateDeck's sort can leave the deck in: the cards a deal  *)
(* names are the top of the deck (the last one is the starter, the         *)
(* HandSize before it seat 0's hand, and so on), above the other cards,    *)
(* which lie in the reverse of their push order.                           *)
(***************************************************************************)
r0 == Card("red", "0", 1)
r1 == Card("red", "1", 1)
b0 == Card("blue", "0", 1)
b1 == Card("blue", "1", 1)
rS1 == Card("red", "Skip", 1)
rS2 == Card("red", "Skip", 2)
rR1 == Card("red", "Reverse", 1)
rR2 == Card("red", "Reverse", 2)
rD1 == Card("red", "Draw2", 1)
rD2 == Card("red", "Draw2", 2)
bS1 == Card("blue", "Skip", 1)
bR1 == Card("blue", "Reverse", 1)
bD1 == Card("blue", "Draw2", 1)
bD2 == Card("blue", "Draw2", 2)
W1 == Card("none", "Wild", 1)
W41 == Card("none", "Wild+4", 1)

Deals ==
  { <<rD1, bD1,   rS1, b0,    bR1, r1,    r0, W1,     bD2>>,
    <<b0, bD1,    bD2, bS1,   rR1, W1,    r1, b1,     rS1, rD1,   r0>>,
    <<bS1, bR1,   rR1, W41,   rS2, b1,    bD1, rD1,   r1>>,
    <<rR1, rR2,   b1, bS1,    r0, r1,     bR1, bD1,   b0, rD1,    W41>> }

shuffled(deal) ==
  Reverse(SelectSeq([i \in 1..NumCards |-> i], LAMBDA c : c \notin Range(deal))) \o deal

(***************************************************************************)
(* The state machine.  ev records the handler that ran last: the seat it   *)
(* acted for, the cards it played (for a play the human's turn rejected,   *)
(* the cards selected) and whether it committed a turn; for resetGame, the *)
(* seat that was current and whether an AI timer was pending.  turns       *)
(* counts the turns committed in the session (human plays and draws, AI    *)
(* activations), and the handlers run while it is below MaxTurns.          *)
(***************************************************************************)
Event(op, by, cards, ok) == [op |-> op, by |-> by, cards |-> cards, ok |-> ok]

Init ==
  /\ \E deal \in Deals : gameState = initialState(shuffled(deal))
  /\ timer = <<>>
  /\ ev = Event("init", 0, <<>>, FALSE)
  /\ turns = 0

ToggleCardSelection ==
  \E cardIndex \in 1..Len(gameState.hands[0]) :
    /\ turns < MaxTurns
    /\ cardIndex \in Range(gameState.selectedCards) \/ Len(gameState.selectedCards) < MaxSel
    /\ gameState' = toggleCardSelection(gameState, cardIndex)
    /\ timer' = useEffect(gameState, gameState', timer)
    /\ ev' = Event("toggle", 0, <<>>, FALSE)
    /\ UNCHANGED turns

SelectColor ==
  \E color \in Range(COLORS) :
    /\ turns < MaxTurns
    /\ colorSelectorShown(gameState)
    /\ gameState' = selectColor(gameState, color)
    /\ timer' = useEffect(gameState, gameState', timer)
    /\ ev' = Event("color", 0, <<>>, FALSE)
    /\ UNCHANGED turns

CancelSelection ==
  /\ turns < MaxTurns
  /\ cancelShown(gameState)
  /\ gameState' = cancelSelection(gameState)
  /\ timer' = useEffect(gameState, gameState', timer)
  /\ ev' = Event("cancel", 0, <<>>, FALSE)
  /\ UNCHANGED turns

HandlePlayerPlay ==
  /\ turns < MaxTurns
  /\ \E r \in handlePlayerPlay(gameState) :
       /\ gameState' = r.g
       /\ timer' = useEffect(gameState, r.g, timer)
       /\ ev' = Event("play", 0, r.cards, r.ok)
       /\ turns' = IF r.ok THEN turns + 1 ELSE turns

HandlePlayerDraw ==
  /\ turns < MaxTurns
  /\ \E r \in handlePlayerDraw(gameState) :
       /\ gameState' = r.g
       /\ timer' = useEffect(gameState, r.g, timer)
       /\ ev' = Event("draw", 0, r.cards, r.ok)
       /\ turns' = IF r.ok THEN turns + 1 ELSE turns

AITurn ==
  /\ turns < MaxTurns
  /\ timer # <<>>
  /\ \E r \in aiTurn(timer[1], gameState) :
       /\ gameState' = r.g
       /\ timer' = useEffect(gameState, r.g, <<>>)
       /\ ev' = Event("ai", timer[1].currentPlayerIdx, r.cards, r.ok)
       /\ turns' = turns + 1

ResetGame ==
  \E deal \in Deals :
    /\ gameState' = initialState(shuffled(deal))
    /\ timer' = useEffect(gameState, gameState', timer)
    /\ ev' = Event("reset", gameState.currentPlayerIdx, <<>>, timer # <<>>)
    /\ turns' = 0

Next ==
  \/ ToggleCardSelection
  \/ SelectColor
  \/ CancelSelection
  \/ HandlePlayerPlay
  \/ HandlePlayerDraw
  \/ AITurn
  \/ ResetGame

Spec == Init /\ [][Next]_vars

(***************************************************************************)
(* The sessions without resetGame, in which a pending AI timer always      *)
(* fires: seat 0 acts while turns is below MaxTurns, the opponents without *)
(* a limit.  A timer that is not cleared fires after its delay, which is   *)
(* the weak fairness of TimerFires.                                        *)
(***************************************************************************)
TimerFires ==
  /\ timer # <<>>
  /\ \E r \in aiTurn(timer[1], gameState) :
       /\ gameState' = r.g
       /\ timer' = useEffect(gameState, r.g, <<>>)
       /\ ev' = Event("ai", timer[1].currentPlayerIdx, r.cards, r.ok)
       /\ turns' = turns + 1

LiveNext ==
  \/ ToggleCardSelection
  \/ SelectColor
  \/ CancelSelection
  \/ HandlePlayerPlay
  \/ HandlePlayerDraw
  \/ TimerFires

LiveSpec == Init /\ [][LiveNext]_vars /\ WF_vars(TimerFires)

(***************************************************************************)
(* The functions of the module level, called on their own.  ev is the call *)
(* (the function, its arguments, whether it has returned, and the value it *)
(* returned); gameState holds the arrays the call was handed, as the call  *)
(* leaves them.                                                            *)
(***************************************************************************)
Call(op, args) == [op |-> op, args |-> args, ok |-> FALSE, result |-> <<>>]

NoArrays == [deck |-> <<>>, discard |-> <<>>]

\* one card of every face of the first two colours, and of the wild cards
RuleCards ==
  {c \in Cards : /\ Color(c) \in {AllColors[1], AllColors[2], "none"}
                 /\ \A d \in 1..(c - 1) : BaseDeck[d] # BaseDeck[c]}

\* a card, or undefined
MaybeCard == {<<c>> : c \in RuleCards} \cup {<<>>}

\* the selections of at most n cards
Selections(n) == UNION {[1..k -> RuleCards] : k \in 0..n}

\* generateDeck, for the deck of the source: the orders its sort leaves
generateDeck == Shuffles(pushedDeck(AllColors, FullMaxNum, FullWildCopies))

PureInit ==
  /\ \/ \E card \in MaybeCard, topCard \in MaybeCard, activeColor \in Range(COLORS) :
          ev = Call("canCardBePlayed", <<card, topCard, activeColor>>)
     \/ \E cards \in Selections(MaxSel), topCard \in MaybeCard,
           activeColor \in Range(COLORS) :
          ev = Call("canPlayMultipleCards", <<cards, topCard, activeColor>>)
     \/ \E count \in 0..MaxCount, deal \in Deals, i \in 0..MaxPile, k \in 0..MaxPile :
          ev = Call("drawCardsFromDeck",
                    <<count, SubSeq(deal, 1, i), SubSeq(deal, i + 1, i + k)>>)
     \/ \E currentIdx \in Seats, dir \in {1, -1} :
          ev = Call("getNextPlayerIdx", <<currentIdx, dir>>)
     \/ ev = Call("generateDeck", <<>>)
  /\ gameState = IF ev.op = "drawCardsFromDeck"
                 THEN [deck |-> ev.args[2], discard |-> ev.args[3]]
                 ELSE NoArrays
  /\ timer = <<>>
  /\ turns = 0

Returns(op, result) ==
  /\ ev.op = op /\ ~ev.ok
  /\ ev' = [ev EXCEPT !.ok = TRUE, !.result = result]

CanCardBePlayed ==
  /\ Returns("canCardBePlayed", canCardBePlayed(ev.args[1], ev.args[2], ev.args[3]))
  /\ UNCHANGED <<gameState, timer, turns>>

CanPlayMultipleCards ==
  /\ Returns("canPlayMultipleCards", canPlayMultipleCards(ev.args[1], ev.args[2], ev.args[3]))
  /\ UNCHANGED <<gameState, timer, turns>>

DrawCardsFromDeck ==
  /\ ev.op = "drawCardsFromDeck"
  /\ \E r \in drawCall(ev.args[1], gameState.deck, gameState.discard) :
       /\ Returns("drawCardsFromDeck", [drawn |-> r.drawn, newDeck |-> r.newDeck])
       /\ gameState' = [deck |-> r.currentDeck, discard |-> r.currentDiscard]
  /\ UNCHANGED <<timer, turns>>

GetNextPlayerIdx ==
  /\ Returns("getNextPlayerIdx", getNextPlayerIdx(ev.args[1], ev.args[2]))
  /\ UNCHANGED <<gameState, timer, turns>>

GenerateDeck ==
  /\ \E deck \in generateDeck : Returns("generateDeck", deck)
  /\ UNCHANGED <<gameState, timer, turns>>

PureNext ==
  \/ CanCardBePlayed
  \/ CanPlayMultipleCards
  \/ DrawCardsFromDeck
  \/ GetNextPlayerIdx
  \/ GenerateDeck

PureSpec == PureInit /\ [][PureNext]_vars

(***************************************************************************)
(* Vocabulary of the properties.  In an action formula the unprimed        *)
(* gameState is the session before the handler ran and the primed one the  *)
(* session it committed.                                                   *)
(***************************************************************************)
Core(g) ==
  <<g.deck, g.discard, g.hands, g.currentColor, g.currentPlayerIdx, g.direction,
    g.gameOver, g.winner>>

\* the step is an accepted play of one or more cards
PlayStep == ev'.op \in {"play", "ai"} /\ ev'.ok /\ ev'.cards # <<>>

\* the step is an accepted play that left its seat with cards in hand
NonWinningPlayStep == PlayStep /\ Len(gameState'.hands[ev'.by]) > 0

\* the step is an accepted play of its seat's last remaining card(s)
WinningPlayStep == PlayStep /\ Len(gameState'.hands[ev'.by]) = 0

LastValue(cards) == Value(cards[Len(cards)])

WildKind(c) == Value(c) \in {"Wild", "Wild+4"}

\* the top discarded card is wild
WildKindTop(g) == WildKind(g.discard[Len(g.discard)])

SeatAfter(s, d) == getNextPlayerIdx(getNextPlayerIdx(s, d), d)

\* C1: a seat that plays its last remaining card(s) wins, and the winning
\* play applies no effect: no other hand changes, nor the direction, nor the
\* draw pile.
C1_WinningPlayAppliesNoEffect ==
  [][WinningPlayStep =>
       /\ gameState'.gameOver
       /\ gameState'.winner = ev'.by
       /\ \A s \in Seats \ {ev'.by} : gameState'.hands[s] = gameState.hands[s]
       /\ gameState'.direction = gameState.direction
       /\ gameState'.deck = gameState.deck]_vars

\* C2: after an accepted, non-winning play whose last card is Skip, the seat
\* that becomes current is the one after the provisional next seat.
C2_SkipPassesOverNextSeat ==
  [][(NonWinningPlayStep /\ LastValue(ev'.cards) = "Skip") =>
       gameState'.currentPlayerIdx = SeatAfter(ev'.by, gameState.direction)]_vars

\* C3: after an accepted, non-winning play whose last card is Draw2 or
\* Wild+4, the turn passes to the seat after the seat that drew.
C3_DrawingSeatDoesNotAct ==
  [][(NonWinningPlayStep /\ LastValue(ev'.cards) \in {"Draw2", "Wild+4"}) =>
       gameState'.currentPlayerIdx = SeatAfter(ev'.by, gameState.direction)]_vars

\* C4: after an accepted, non-winning play of k Draw2 (resp. Wild+4) cards,
\* when 2k (resp. 4k) cards can be drawn, the hand of the next seat grows by
\* exactly 2k (resp. 4k) cards and no other hand grows.
C4_PenaltyGrowsNextHandOnly ==
  [][(NonWinningPlayStep /\ LastValue(ev'.cards) \in {"Draw2", "Wild+4"}) =>
       LET n == getNextPlayerIdx(ev'.by, gameState.direction)
           need == Len(ev'.cards) * (IF LastValue(ev'.cards) = "Draw2" THEN 2 ELSE 4)
           recyclable == IF Len(gameState'.discard) > 1
                         THEN Len(gameState'.discard) - 1 ELSE 0
       IN  Len(gameState.deck) + recyclable >= need =>
             /\ Len(gameState'.hands[n]) = Len(gameState.hands[n]) + need
             /\ \A s \in Seats \ {n} :
                  Len(gameState'.hands[s]) <= Len(gameState.hands[s])]_vars

\* a stack of two Draw2 cards was played and the game goes on
C4_Witness ==
  /\ ev.op \in {"play", "ai"} /\ ev.ok
  /\ Len(ev.cards) = 2 /\ LastValue(ev.cards) = "Draw2"
  /\ ~gameState.gameOver
  /\ Len(gameState.hands[getNextPlayerIdx(ev.by, gameState.direction)]) >= 4

Occurrences(c, g) ==
  Cardinality({i \in 1..Len(g.deck) : g.deck[i] = c})
  + Cardinality({i \in 1..Len(g.discard) : g.discard[i] = c})
  + Cardinality({<<s, i>> \in Seats \X (1..NumCards * 4) :
                   i <= Len(g.hands[s]) /\ g.hands[s][i] = c})

\* C5: every card of the deck is in exactly one of the draw pile, the
\* discard pile and the hands.
C5_EveryCardInExactlyOnePlace ==
  \A c \in Cards : Occurrences(c, gameState) = 1

\* C6: while a seat other than 0 is current, or the session is terminal,
\* handlePlayerPlay and handlePlayerDraw change nothing.
C6_HumanInputIgnoredOffTurn ==
  [][(ev'.op \in {"play", "draw"}
        /\ (gameState.currentPlayerIdx # 0 \/ gameState.gameOver)) =>
       gameState' = gameState]_vars

\* a play was asked for, with cards selected, while an AI seat was pending
C6_Witness ==
  /\ ev.op = "play" /\ ~ev.ok
  /\ gameState.currentPlayerIdx # 0 /\ ~gameState.gameOver
  /\ timer # <<>>
  /\ Len(gameState.selectedCards) > 0

SelectedOf(g) == [k \in 1..Len(g.selectedCards) |-> g.hands[0][g.selectedCards[k]]]

MixesRanks(cards) == \E i \in 1..Len(cards) : Value(cards[i]) # Value(cards[1])

LeadingUnplayable(g) ==
  LET c == SelectedOf(g)[1]
  IN  ~(\/ Type(c) = "wild"
        \/ Color(c) = g.currentColor
        \/ Value(c) = Value(g.discard[Len(g.discard)]))

Rejected(g) ==
  \/ g.selectedCards = <<>>
  \/ MixesRanks(SelectedOf(g))
  \/ LeadingUnplayable(g)

WildWithoutColor(g) ==
  /\ g.selectedCards # <<>>
  /\ Type(SelectedOf(g)[1]) = "wild"
  /\ g.selectedColor = "none"

OnlySelectionCleared(g, g2) ==
  /\ Core(g2) = Core(g)
  /\ g2.selectedColor = g.selectedColor
  /\ g2.selectedCards \in {g.selectedCards, <<>>}

HumanPlayStep ==
  ev'.op = "play" /\ gameState.currentPlayerIdx = 0 /\ ~gameState.gameOver

\* C7 as stated: on seat 0's turn a play of an empty, mixed-rank or
\* unplayable selection at most clears the selection, and any selection led
\* by a wild card with no colour chosen changes nothing at all.
C7_AsStated ==
  [][HumanPlayStep =>
       /\ Rejected(gameState) => OnlySelectionCleared(gameState, gameState')
       /\ WildWithoutColor(gameState) => gameState' = gameState]_vars

\* C7 amended: on seat 0's turn a play of an empty, mixed-rank or unplayable
\* selection at most clears the selection, and a same-rank selection led by
\* a wild card with no colour chosen changes nothing at all.
C7_RejectedPlayChangesNoGameplayField ==
  [][HumanPlayStep =>
       /\ Rejected(gameState) => OnlySelectionCleared(gameState, gameState')
       /\ (WildWithoutColor(gameState) /\ ~MixesRanks(SelectedOf(gameState))) =>
            gameState' = gameState]_vars

\* a play led by a wild card was withheld for want of a colour
C7_Witness ==
  /\ ev.op = "play" /\ ~ev.ok /\ ev.cards # <<>>
  /\ gameState.currentPlayerIdx = 0 /\ ~gameState.gameOver
  /\ WildWithoutColor(gameState)

\* C8: once the session is terminal only resetGame changes the piles, the
\* hands, the active colour, the current seat, the direction or the winner.
C8_TerminalIsAbsorbing ==
  [][(gameState.gameOver /\ ev'.op # "reset") =>
       Core(gameState') = Core(gameState)]_vars

\* a draw was asked for in a session seat 0 had won
C8_Witness ==
  /\ gameState.gameOver /\ gameState.winner = 0
  /\ ev.op = "draw"

\* C9: resetGame leaves no AI timer pending; a pending timer always closes
\* over the current session; and while seat 0 is current only a human play,
\* a human draw or resetGame changes a gameplay field.
C9_ResetDiscardsPendingActivation ==
  [][/\ ev'.op = "reset" =>
          /\ timer' = <<>>
          /\ gameState'.currentPlayerIdx = 0 /\ ~gameState'.gameOver
     /\ timer' # <<>> => Core(timer'[1]) = Core(gameState')
     /\ (gameState.currentPlayerIdx = 0 /\ ev'.op \notin {"play", "draw", "reset"}) =>
          Core(gameState') = Core(gameState)]_vars

\* resetGame ran while an AI timer was pending
C9_Witness ==
  /\ ev.op = "reset" /\ ev.ok /\ ev.by # 0
  /\ timer = <<>>

Count(c, cards) == Cardinality({i \in 1..Len(cards) : cards[i] = c})

\* hand without the positions K
Without(hand, K) ==
  LET keep == SelectSeq([i \in 1..Len(hand) |-> i], LAMBDA i : i \notin K)
  IN  [k \in 1..Len(keep) |-> hand[keep[k]]]

\* C10: an accepted play removes exactly the played cards from its seat's
\* hand, keeping the order of the others, and appends them to the discard
\* pile in the order selected; the colour of a last card that is not wild
\* becomes the active colour.
C10_PlayMovesCardsToDiscard ==
  [][PlayStep =>
       LET h == gameState.hands[ev'.by]
           cards == ev'.cards
       IN  /\ gameState'.discard = gameState.discard \o cards
           /\ \E K \in SUBSET {i \in 1..Len(h) : h[i] \in Range(cards)} :
                /\ Cardinality(K) = Len(cards)
                /\ \A c \in Range(cards) :
                     Count(c, cards) = Cardinality({i \in K : h[i] = c})
                /\ gameState'.hands[ev'.by] = Without(h, K)
           /\ ev'.op = "play" => cards = SelectedOf(gameState)
           /\ Type(cards[Len(cards)]) # "wild" =>
                gameState'.currentColor = Color(cards[Len(cards)])]_vars

\* seat 0 played two cards of one rank and two colours, picked against the
\* order of its hand
C10_Witness ==
  /\ ev.op = "play" /\ ev.ok /\ Len(ev.cards) = 2
  /\ gameState.selectedCards = <<2, 1>>
  /\ Color(ev.cards[1]) # Color(ev.cards[2])
  /\ gameState.currentColor = Color(ev.cards[2])
  /\ gameState.discard[Len(gameState.discard)] = ev.cards[2]

\* the step is a turn that plays nothing: the human's draw, or the
\* activation of an opponent that holds no playable card
DrawTurnStep == ev'.op \in {"draw", "ai"} /\ ev'.ok /\ ev'.cards = <<>>

CardAvailable(g) == Len(g.deck) > 0 \/ Len(g.discard) > 1

\* C11: a draw turn of seat S adds exactly one card to the hand of S when a
\* card can be drawn, makes the seat after S in the current direction the
\* current seat, and leaves the discard pile, the active colour, the
\* direction and every other hand unchanged.
C11_DrawTurnAddsOneCardAndPasses ==
  [][DrawTurnStep =>
       LET S == ev'.by
       IN  /\ S = gameState.currentPlayerIdx
           /\ CardAvailable(gameState) =>
                \E c \in Cards : gameState'.hands[S] = Append(gameState.hands[S], c)
           /\ gameState'.currentPlayerIdx = getNextPlayerIdx(S, gameState.direction)
           /\ gameState'.discard = gameState.discard
           /\ gameState'.currentColor = gameState.currentColor
           /\ gameState'.direction = gameState.direction
           /\ \A s \in Seats \ {S} : gameState'.hands[s] = gameState.hands[s]]_vars

\* an opponent that held no playable card drew one and passed the turn
C11_Witness ==
  /\ ev.op = "ai" /\ ev.ok /\ ev.cards = <<>>
  /\ Len(gameState.hands[ev.by]) = HandSize + 1
  /\ gameState.currentPlayerIdx = getNextPlayerIdx(ev.by, gameState.direction)
  /\ Len(gameState.discard) = 1

\* the shape of a session just dealt
FreshSession(g) ==
  /\ Len(g.discard) = 1
  /\ \A s \in Seats : Len(g.hands[s]) = HandSize
  /\ Len(g.deck) = NumCards - 1 - 4 * HandSize
  /\ \A c \in Cards : Occurrences(c, g) = 1
  /\ g.currentPlayerIdx = 0
  /\ g.direction = 1
  /\ ~g.gameOver /\ g.winner = NoWinner
  /\ g.selectedCards = <<>> /\ g.selectedColor = "none"
  /\ g.skipNextPlayer = FALSE

\* C16: the session at startup and after every resetGame has one discarded
\* card, four hands of HandSize cards and the other cards of the deck in the
\* draw pile, every card once; seat 0 is current, the direction is +1, the
\* session is not terminal and has no winner, and no card or colour is
\* selected, whatever the session before was.
C16_NewSessionIsFresh ==
  ev.op \in {"init", "reset"} => FreshSession(gameState)

\* resetGame ran on the turn of an opponent and dealt a wild starter
C16_Witness ==
  /\ ev.op = "reset" /\ ev.by # 0
  /\ gameState.currentPlayerIdx = 0
  /\ WildKindTop(gameState)

\* C18: the active colour is always one of the colours of the deck, and is
\* the colour of the top discarded card when that card is not wild; after
\* a play of seat 0 whose last card is wild it is the colour seat 0 chose.
C18_ActiveColorIsReal ==
  /\ [](/\ gameState.currentColor \in Range(COLORS)
        /\ ~WildKindTop(gameState) =>
             gameState.currentColor = Color(gameState.discard[Len(gameState.discard)]))
  /\ [][(PlayStep /\ ev'.op = "play" /\ LastValue(ev'.cards) \in {"Wild", "Wild+4"}) =>
          gameState'.currentColor = gameState.selectedColor]_vars

\* seat 0 played a wild card and chose a colour other than the active one
C18_Witness ==
  /\ ev.op = "play" /\ ev.ok
  /\ WildKindTop(gameState)
  /\ Len(gameState.discard) = 2
  /\ gameState.currentColor # Color(gameState.discard[1])
  /\ gameState.currentColor \in Range(COLORS)

\* C19: an accepted, non-winning play whose last card is Reverse flips the
\* direction once, however many Reverse cards it stacks, and makes the seat
\* after the playing seat in the new direction current; a play whose last
\* card is not Reverse, and a draw, leave the direction as it is.
C19_ReverseFlipsDirectionOnce ==
  [][/\ (NonWinningPlayStep /\ LastValue(ev'.cards) = "Reverse") =>
          /\ gameState'.direction = -gameState.direction
          /\ gameState'.currentPlayerIdx =
                getNextPlayerIdx(ev'.by, gameState'.direction)
     /\ ((PlayStep /\ LastValue(ev'.cards) # "Reverse") \/ DrawTurnStep) =>
          gameState'.direction = gameState.direction]_vars

\* an opponent stacked two Reverse cards and the turn came back to seat 0
C19_Witness ==
  /\ ev.op = "ai" /\ ev.ok
  /\ Len(ev.cards) = 2 /\ LastValue(ev.cards) = "Reverse"
  /\ gameState.direction = -1
  /\ gameState.currentPlayerIdx = getNextPlayerIdx(ev.by, -1)
  /\ ~gameState.gameOver

\* the cards of seat S playable on their own in session g, in hand order
PlayableOf(g, S) ==
  SelectSeq(g.hands[S],
            LAMBDA c : \/ WildKind(c)
                       \/ Color(c) = g.currentColor
                       \/ Value(c) = Value(g.discard[Len(g.discard)]))

\* C20: an activated opponent that holds no playable card plays nothing and
\* draws one card; otherwise it draws nothing and plays its first playable
\* card with every other playable card of that rank, in hand order, and no
\* other card.
C20_OpponentPlaysFirstPlayableRank ==
  [][ev'.op = "ai" =>
       LET S == ev'.by
           h == gameState.hands[S]
           valid == PlayableOf(gameState, S)
       IN  /\ valid = <<>> =>
                /\ ev'.cards = <<>>
                /\ gameState'.discard = gameState.discard
                /\ CardAvailable(gameState) => Len(gameState'.hands[S]) = Len(h) + 1
           /\ valid # <<>> =>
                /\ ev'.cards = SelectSeq(valid, LAMBDA c : Value(c) = Value(valid[1]))
                /\ gameState'.discard = gameState.discard \o ev'.cards
                /\ gameState'.hands[S] = SelectSeq(h, LAMBDA c : c \notin Range(ev'.cards))
                /\ gameState'.deck = gameState.deck]_vars

\* an opponent played two Draw2 cards and kept cards it could not play
C20_Witness ==
  /\ ev.op = "ai" /\ ev.ok
  /\ Len(ev.cards) = 2 /\ LastValue(ev.cards) = "Draw2"
  /\ Len(gameState.hands[ev.by]) = 2
  /\ \A i \in 1..2 : /\ Value(gameState.hands[ev.by][i]) # "Draw2"
                      /\ ~WildKind(gameState.hands[ev.by][i])

\* the seat of an opponent is current and the session goes on
OpponentToAct(g) == g.currentPlayerIdx # 0 /\ ~g.gameOver

\* C21: while an opponent seat is current in a session that goes on, one
\* activation is pending for that seat, on the session as the last turn
\* committed it, and none is pending otherwise; an activation runs for the
\* current seat and leaves another seat current or the session terminal;
\* selecting cards or a colour in the meantime leaves the pending activation
\* as it is.
C21_OneActivationPerOpponentTurn ==
  /\ [](IF OpponentToAct(gameState)
        THEN /\ Len(timer) = 1
             /\ timer[1].currentPlayerIdx = gameState.currentPlayerIdx
             /\ Core(timer[1]) = Core(gameState)
        ELSE timer = <<>>)
  /\ [][/\ ev'.op = "ai" =>
             /\ OpponentToAct(gameState)
             /\ ev'.by = gameState.currentPlayerIdx
             /\ gameState'.currentPlayerIdx # ev'.by \/ gameState'.gameOver
        /\ ev'.op \in {"toggle", "color", "cancel"} => timer' = timer]_vars

\* an opponent was activated after seat 0 selected a card during its delay,
\* and the next opponent is pending
C21_Witness ==
  /\ ev.op = "ai" /\ ev.ok
  /\ Len(gameState.selectedCards) > 0
  /\ OpponentToAct(gameState)
  /\ gameState.currentPlayerIdx # ev.by
  /\ timer # <<>>

EmptyHanded(g) == {s \in Seats : Len(g.hands[s]) = 0}

\* C23: the session is terminal exactly when some hand is empty; a terminal
\* session has one empty hand, that of the winner; a session that goes on
\* has no winner and no empty hand.
C23_TerminalIffHandEmpty ==
  /\ gameState.gameOver <=> EmptyHanded(gameState) # {}
  /\ gameState.gameOver =>
       /\ Cardinality(EmptyHanded(gameState)) = 1
       /\ gameState.winner \in EmptyHanded(gameState)
  /\ ~gameState.gameOver =>
       /\ gameState.winner = NoWinner
       /\ EmptyHanded(gameState) = {}

\* an opponent won with its last two cards
C23_Witness ==
  /\ gameState.gameOver
  /\ gameState.winner \in {1, 2, 3}
  /\ EmptyHanded(gameState) = {gameState.winner}
  /\ ev.op = "ai" /\ Len(ev.cards) = HandSize

(***************************************************************************)
(* Properties of the functions called on their own.                        *)
(***************************************************************************)
Returned(op) == ev.op = op /\ ev.ok

\* C12: a draw of any count from an empty draw pile and a discard pile of
\* more than one card returns only cards of the discard pile below its top
\* card, never the top card, and leaves the discard pile as it was.
C12_RecyclingNeverReturnsTop ==
  (Returned("drawCardsFromDeck") /\ ev.args[2] = <<>> /\ Len(ev.args[3]) > 1) =>
    LET discard == ev.args[3]
        T == discard[Len(discard)]
    IN  /\ \A i \in 1..Len(ev.result.drawn) :
             \E j \in 1..(Len(discard) - 1) : ev.result.drawn[i] = discard[j]
        /\ \A i \in 1..Len(ev.result.drawn) : ev.result.drawn[i] # T
        /\ gameState.discard = discard

\* three cards were drawn from an empty draw pile and a discard pile of three
C12_Witness ==
  /\ Returned("drawCardsFromDeck")
  /\ ev.args[2] = <<>> /\ Len(ev.args[3]) = 3
  /\ Len(ev.result.drawn) = 3

\* C13: a wild card is always playable; any other card is playable exactly
\* when its colour is the active colour or its rank is the rank of the top
\* card.
C13_PlayableByColorOrRank ==
  (Returned("canCardBePlayed") /\ ev.args[1] # <<>> /\ ev.args[2] # <<>>) =>
    LET card == ev.args[1][1]
        topCard == ev.args[2][1]
        activeColor == ev.args[3]
    IN  /\ WildKind(card) => ev.result = TRUE
        /\ ~WildKind(card) =>
             (ev.result <=> (Color(card) = activeColor \/ Value(card) = Value(topCard)))

\* a card of the colour of the top card, but not of the active colour nor of
\* the rank of the top card, was found unplayable
C13_Witness ==
  /\ Returned("canCardBePlayed") /\ ev.args[1] # <<>> /\ ev.args[2] # <<>>
  /\ Color(ev.args[1][1]) = Color(ev.args[2][1])
  /\ Color(ev.args[1][1]) \notin {ev.args[3], "none"}
  /\ Value(ev.args[1][1]) # Value(ev.args[2][1])
  /\ ev.result = FALSE

\* C14: the empty selection is not playable; a single card is playable as a
\* selection exactly when it is playable; a selection that mixes ranks is
\* not playable; a selection of two or more cards is playable exactly when
\* its cards share one rank and its first card is playable.
C14_StackPlayableByFirstCard ==
  Returned("canPlayMultipleCards") =>
    LET cards == ev.args[1]
        playable(c) == canCardBePlayed(<<c>>, ev.args[2], ev.args[3])
    IN  /\ Len(cards) = 0 => ev.result = FALSE
        /\ Len(cards) = 1 => ev.result = playable(cards[1])
        /\ MixesRanks(cards) => ev.result = FALSE
        /\ Len(cards) >= 2 =>
             (ev.result <=> (~MixesRanks(cards) /\ playable(cards[1])))

\* a stack of one rank was found playable whose second card, of another
\* colour, is not playable on its own
C14_Witness ==
  /\ Returned("canPlayMultipleCards") /\ Len(ev.args[1]) = 2
  /\ ev.result = TRUE
  /\ Color(ev.args[1][1]) # Color(ev.args[1][2])
  /\ ~canCardBePlayed(<<ev.args[1][2]>>, ev.args[2], ev.args[3])

\* the ring of the seats, clockwise
Ring == (0 :> 3) @@ (3 :> 1) @@ (1 :> 2) @@ (2 :> 0)

\* C15: the next seat follows the ring 0, 3, 1, 2 clockwise and the reverse
\* of it counter-clockwise, is a seat other than the given one, and is
\* undone by the next seat in the opposite direction.
C15_NextSeatFollowsRing ==
  Returned("getNextPlayerIdx") =>
    LET s == ev.args[1]
        d == ev.args[2]
    IN  /\ ev.result \in Seats \ {s}
        /\ d = 1 => ev.result = Ring[s]
        /\ d = -1 => Ring[ev.result] = s
        /\ getNextPlayerIdx(ev.result, -d) = s

\* the seat after seat 2, clockwise, was asked for
C15_Witness ==
  /\ Returned("getNextPlayerIdx")
  /\ ev.args = <<2, 1>> /\ ev.result = 0

CountIn(deck, color, value) ==
  Cardinality({i \in 1..Len(deck) : deck[i].color = color /\ deck[i].value = value})

\* C17: a generated deck has 108 cards: of every colour one 0, two of each
\* of 1..9 and two of each of Skip, Reverse and Draw2, 25 in all, and four
\* Wild and four Wild+4; a card has no colour exactly when it is wild.
C17_DeckHas108Cards ==
  Returned("generateDeck") =>
    LET deck == ev.result
    IN  /\ Len(deck) = 108
        /\ \A color \in Range(AllColors) :
             /\ CountIn(deck, color, "0") = 1
             /\ \A n \in 1..9 : CountIn(deck, color, NumStr[n + 1]) = 2
             /\ \A a \in {"Skip", "Reverse", "Draw2"} : CountIn(deck, color, a) = 2
             /\ Cardinality({i \in 1..Len(deck) : deck[i].color = color}) = 25
        /\ CountIn(deck, "none", "Wild") = 4
        /\ CountIn(deck, "none", "Wild+4") = 4
        /\ \A i \in 1..Len(deck) :
             deck[i].color = "none" <=> deck[i].value \in {"Wild", "Wild+4"}

\* a deck was generated whose sort moved the cards out of their push order
C17_Witness ==
  /\ Returned("generateDeck")
  /\ ev.result # pushedDeck(AllColors, FullMaxNum, FullWildCopies)
  /\ ev.result[1].type = "wild"

Min(a, b) == IF a <= b THEN a ELSE b

\* C24: one call of drawCardsFromDeck returns no card twice, and returns
\* as many cards as were asked for or, if fewer are there, every card of
\* the draw pile and of the discard pile below its top card.
C24_DrawReturnsEachCardOnce ==
  Returned("drawCardsFromDeck") =>
    LET count == ev.args[1]
        currentDeck == ev.args[2]
        currentDiscard == ev.args[3]
        drawn == ev.result.drawn
        recyclable == IF Len(currentDiscard) > 1 THEN Len(currentDiscard) - 1 ELSE 0
    IN  /\ \A i, j \in 1..Len(drawn) : i # j => drawn[i] # drawn[j]
        /\ Len(drawn) = Min(count, Len(currentDeck) + recyclable)

\* C22, in the sessions of LiveSpec: whenever an opponent seat is current
\* and the session goes on, seat 0 becomes current or the session becomes
\* terminal.
C22_OpponentsYieldTheTurn ==
  OpponentToAct(gameState) ~> (gameState.currentPlayerIdx = 0 \/ gameState.gameOver)

====
